---- MODULE Spec2Model ----
(***************************************************************************)
(* Model of dashboard/app.py: a PyShiny Express dashboard.  One memoized   *)
(* reactive calc (reactive_calc_combined) appends a random temperature     *)
(* reading to a shared deque(maxlen=DEQUE_SIZE) each time it is executed,  *)
(* re-arms an invalidation timer, and returns (deque, DataFrame, latest).  *)
(* Four outputs (display_temp, display_time, display_df, display_plot)     *)
(* call the calc when they render.                                         *)
(*                                                                         *)
(* Numbers: temperatures are exact rationals.  A Celsius draw is a number  *)
(* of tenths of a degree; a Fahrenheit temperature is an integer number of *)
(* hundredths of a degree.  Regression results are reduced fractions       *)
(* [num, den]; [0, 0] stands for the float NaN.                            *)
(***************************************************************************)
EXTENDS Integers, Sequences, FiniteSets, TLC

\* ---------------------------------------------------------------- constants
UPDATE_INTERVAL_SECS == 3
DEQUE_SIZE == 5

\* ------------------------------------------------------------------- bounds
\* number of refresh ticks explored (the program runs for ever)
MaxTicks == 6
\* random.uniform(0, 5) rounded to 1 decimal is 0..50 tenths; explored: 0..MaxCelsiusTenths
MaxCelsiusTenths == 1
\* values of the windows handed to the trend fit in FitSpec: 1..MaxFitValue
MaxFitValue == 5

Widgets == {"display_temp", "display_time", "display_df", "display_plot"}

VARIABLES
    deque,       \* contents of the deque object wrapped by reactive_value_wrapper
    df,          \* contents of the DataFrame object held in the memoized tuple
    latest,      \* latest_dictionary_entry of the memoized tuple
    calc_valid,  \* TRUE while reactive_calc_combined's memoized value is fresh
    timer,       \* TRUE while an invalidate_later timer is pending
    tick,        \* number of the current refresh tick (first page load = 1)
    dirty,       \* outputs invalidated and waiting to render in the current flush
    rendered,    \* per output: what its last render received and produced
    appended     \* every reading appended so far, in order (history)

vars == <<deque, df, latest, calc_valid, timer, tick, dirty, rendered, appended>>

\* ------------------------------------------------------------ float stand-in
\* a number is a reduced fraction [num, den] with den > 0; [0, 0] stands for
\* NaN, which every operation propagates.  The only division by zero the
\* program reaches is 0/0.  The operations are written {e(x) : x \in {a}} so
\* that an operand is evaluated once.
NaN == [num |-> 0, den |-> 0]

Abs(a) == IF a < 0 THEN -a ELSE a

RECURSIVE GCD(_, _)
GCD(a, b) ==
    IF b = 0 THEN a
    ELSE CHOOSE g \in {GCD(x, y) : x \in {b}, y \in {a % b}} : TRUE

Reduced(n, d, g) ==
    IF d < 0 THEN [num |-> (-n) \div g, den |-> (-d) \div g]
    ELSE [num |-> n \div g, den |-> d \div g]

\* the number n/d
Frac(n, d) ==
    CHOOSE f \in {IF y = 0 THEN NaN
                  ELSE CHOOSE r \in {Reduced(x, y, g) : g \in {GCD(Abs(x), Abs(y))}} : TRUE
                  : x \in {n}, y \in {d}} : TRUE

IsNaN(f) == f.den = 0
FInt(n) == [num |-> n, den |-> 1]
FAdd(a, b) ==
    CHOOSE f \in {Frac(x.num * y.den + y.num * x.den, x.den * y.den) :
                    x \in {a}, y \in {b}} : TRUE
FSub(a, b) ==
    CHOOSE f \in {Frac(x.num * y.den - y.num * x.den, x.den * y.den) :
                    x \in {a}, y \in {b}} : TRUE
FMul(a, b) ==
    CHOOSE f \in {Frac(x.num * y.num, x.den * y.den) : x \in {a}, y \in {b}} : TRUE
FDiv(a, b) ==
    CHOOSE f \in {Frac(x.num * y.den, x.den * y.num) : x \in {a}, y \in {b}} : TRUE
\* equality of two numbers; NaN equals nothing
FEq(a, b) == ~IsNaN(a) /\ ~IsNaN(b) /\ a = b

\* sum of the first n elements of a sequence of integers
RECURSIVE SumTo(_, _)
SumTo(s, n) == IF n = 0 THEN 0 ELSE s[n] + SumTo(s, n - 1)

SumSeq(s) == SumTo(s, Len(s))

\* sum of the first n elements of a sequence of numbers
RECURSIVE FSumTo(_, _)
FSumTo(s, n) == IF n = 0 THEN FInt(0) ELSE FAdd(s[n], FSumTo(s, n - 1))

FSumSeq(s) == FSumTo(s, Len(s))

Last(s) == s[Len(s)]

\* ------------------------------------------------------------ sample source
CelsiusTenths == 0..MaxCelsiusTenths

\* temp_celsius * 9/5 + 32, from tenths of a degree C to hundredths of a degree F
temp_fahrenheit(t) == ((t * 10) * 9) \div 5 + 32 * 100

\* datetime.now() at second precision: ticks are UPDATE_INTERVAL_SECS apart
timestamp(k) == (k - 1) * UPDATE_INTERVAL_SECS

new_dictionary_entry(t, k) == [temp |-> temp_fahrenheit(t), timestamp |-> timestamp(k)]

\* ------------------------------------------------------------ rolling window
\* variant: a full deque drops its newest element instead of its oldest
deque_append_drops_newest(d, e) ==
    IF Len(d) >= DEQUE_SIZE THEN Append(SubSeq(d, 1, Len(d) - 1), e) ELSE Append(d, e)

\* variant: appendleft, the new reading goes to the front
deque_appendleft(d, e) ==
    IF Len(d) >= DEQUE_SIZE THEN <<e>> \o SubSeq(d, 1, Len(d) - 1) ELSE <<e>> \o d

\* deque(maxlen=DEQUE_SIZE).append: add at the right, drop from the left when full
deque_append(d, e) ==
    IF Len(d) >= DEQUE_SIZE THEN Append(Tail(d), e) ELSE Append(d, e)

\* pd.DataFrame(deque_snapshot): a new object holding a copy of the rows
DataFrame(d) ==
    [rows |-> d, columns |-> IF d = <<>> THEN {} ELSE {"temp", "timestamp"},
     timestamp_dtype |-> "str", best_fit_line |-> <<>>]

df_empty(f) == f.rows = <<>>

\* the first element of the returned tuple is the deque object itself (no copy):
\* what a holder of that reference reads at any time is the deque's contents then
deque_snapshot_now == deque

\* ------------------------------------------------------------- reactive calc
\* variant: no memoization, every call runs the body
calc_must_run_always == TRUE

\* memoization of @reactive.calc: the body runs only when the value is stale
calc_must_run == ~calc_valid

\* variant: the body does not re-arm the timer
invalidate_later_not_armed == FALSE

\* reactive.invalidate_later(UPDATE_INTERVAL_SECS): the body arms the timer
invalidate_later == TRUE

\* variant: the body runs on every call, fresh or not
reactive_calc_combined_unmemoized(t) ==
    LET e == new_dictionary_entry(t, tick)
        d == deque_append(deque, e)
    IN [deque |-> d, df |-> DataFrame(d), latest |-> e,
        timer |-> invalidate_later, appended |-> Append(appended, e)]

\* variant: the DataFrame is built before the new reading is appended
reactive_calc_combined_frame_first(t) ==
    IF calc_must_run
    THEN LET e == new_dictionary_entry(t, tick)
             d == deque_append(deque, e)
         IN [deque |-> d, df |-> DataFrame(deque), latest |-> e,
             timer |-> invalidate_later, appended |-> Append(appended, e)]
    ELSE [deque |-> deque, df |-> df, latest |-> latest,
          timer |-> timer, appended |-> appended]

\* state after a call of reactive_calc_combined() drawing t tenths of a degree C
reactive_calc_combined(t) ==
    IF calc_must_run
    THEN LET e == new_dictionary_entry(t, tick)
             d == deque_append(deque, e)
         IN [deque |-> d, df |-> DataFrame(d), latest |-> e,
             timer |-> invalidate_later, appended |-> Append(appended, e)]
    ELSE [deque |-> deque, df |-> df, latest |-> latest,
          timer |-> timer, appended |-> appended]

\* random.uniform is called only when the body of the calc runs
Draws == IF calc_must_run THEN CelsiusTenths ELSE {0}

NotRendered ==
    [tick |-> 0, deque_snapshot |-> <<>>, df |-> DataFrame(<<>>),
     latest_dictionary_entry |-> [temp |-> 0, timestamp |-> 0], value |-> 0]

\* what a render function holds after unpacking the tuple, plus its return value
Rendering(r, value) ==
    [tick |-> tick, deque_snapshot |-> r.deque, df |-> r.df,
     latest_dictionary_entry |-> r.latest, value |-> value]

Init ==
    /\ deque = <<>>
    /\ df = DataFrame(<<>>)
    /\ latest = [temp |-> 0, timestamp |-> 0]
    /\ calc_valid = FALSE
    /\ timer = FALSE
    /\ tick = 1
    /\ dirty = Widgets
    /\ rendered = [w \in Widgets |-> NotRendered]
    /\ appended = <<>>

\* common part of a render of output w that leaves the DataFrame as returned
RenderWith(w, r, value, newdf) ==
    /\ deque' = r.deque
    /\ df' = newdf
    /\ latest' = r.latest
    /\ calc_valid' = TRUE
    /\ timer' = r.timer
    /\ appended' = r.appended
    /\ dirty' = dirty \ {w}
    /\ rendered' = [rendered EXCEPT ![w] = Rendering(r, value)]
    /\ UNCHANGED tick

display_temp ==
    /\ "display_temp" \in dirty
    /\ \E t \in Draws :
         \E r \in {reactive_calc_combined(t)} :
           RenderWith("display_temp", r, r.latest.temp, r.df)

\* timestamp.split(): the date part and the time part of the latest timestamp
display_time ==
    /\ "display_time" \in dirty
    /\ \E t \in Draws :
         \E r \in {reactive_calc_combined(t)} :
           RenderWith("display_time", r, r.latest.timestamp, r.df)

\* render.DataGrid(df): the grid shows the DataFrame as it is at render time
display_df ==
    /\ "display_df" \in dirty
    /\ \E t \in Draws :
         \E r \in {reactive_calc_combined(t)} :
           RenderWith("display_df", r, r.df, r.df)

\* ----------------------------------------------------------- trend estimator
\* variant: the index starts at 1
x_vals_from_one(n) == [i \in 1..n |-> i]

\* sequence = range(len(df)); x_vals = list(sequence)
x_vals(n) == [i \in 1..n |-> i - 1]

\* y_vals = df["temp"]
y_vals(f) == [i \in 1..Len(f.rows) |-> f.rows[i].temp]

\* scipy.stats.linregress(x, y) for integer inputs: slope = ssxym / ssxm and
\* intercept = ymean - slope * xmean, with ssxm and ssxym the biased
\* (co)variances.  One point gives ssxm = ssxym = 0, so slope = 0/0 = NaN;
\* linregress raises only for empty input or for several identical x values.
linregress(x, y) ==
    LET n == Len(x)
        Sx == SumSeq(x)
        Sy == SumSeq(y)
        Sxx == SumSeq([i \in 1..n |-> x[i] * x[i]])
        Sxy == SumSeq([i \in 1..n |-> x[i] * y[i]])
        xmean == Frac(Sx, n)
        ymean == Frac(Sy, n)
        ssxm == Frac(n * Sxx - Sx * Sx, n * n)
        ssxym == Frac(n * Sxy - Sx * Sy, n * n)
        slope == FDiv(ssxym, ssxm)
    IN [slope |-> slope, intercept |-> FSub(ymean, FMul(slope, xmean))]

\* [slope * x + intercept for x in x_vals]
best_fit_line(fit, x) ==
    [i \in 1..Len(x) |-> FAdd(FMul(fit.slope, FInt(x[i])), fit.intercept)]

NoDataFigure ==
    [title |-> "No Data Available", traces |-> {}, y |-> <<>>,
     regression_line |-> <<>>, slope |-> NaN, intercept |-> NaN,
     annotation_index |-> 0]

\* rest of display_plot's body once the fit is known: the figure it returns
\* and the DataFrame object as the body leaves it (two columns are assigned
\* in place: df["timestamp"] = ..., df['best_fit_line'] = ...)
plot_with(f, fit) ==
    [df |-> [rows |-> f.rows,
             columns |-> f.columns \cup {"best_fit_line"},
             timestamp_dtype |-> "datetime",
             best_fit_line |-> best_fit_line(fit, x_vals(Len(f.rows)))],
     fig |-> [title |-> "Temperature Readings with Regression Line",
              traces |-> {"scatter", "Regression Line"},
              y |-> y_vals(f),
              regression_line |-> best_fit_line(fit, x_vals(Len(f.rows))),
              slope |-> fit.slope,
              intercept |-> fit.intercept,
              annotation_index |-> Len(f.rows) \div 2]]

\* body of display_plot on the DataFrame f it received (the fit is evaluated
\* once, then used)
plot(f) ==
    IF ~df_empty(f)
    THEN CHOOSE p \in {plot_with(f, fit) :
                          fit \in {linregress(x_vals(Len(f.rows)), y_vals(f))}} : TRUE
    ELSE [df |-> f, fig |-> NoDataFigure]

display_plot ==
    /\ "display_plot" \in dirty
    /\ \E t \in Draws :
         \E r \in {reactive_calc_combined(t)} :
           \E p \in {plot(r.df)} :
             RenderWith("display_plot", [r EXCEPT !.df = p.df], p.fig, p.df)

\* ---------------------------------------------------------- refresh scheduler
\* the invalidate_later timer expires: the calc and every output that read it
\* are invalidated.  The timer task takes the session's reactive lock, so it
\* runs between flushes, never while outputs of a flush are still rendering.
invalidate_later_fires ==
    /\ timer
    /\ dirty = {}
    /\ tick < MaxTicks
    /\ calc_valid' = FALSE
    /\ timer' = FALSE
    /\ tick' = tick + 1
    /\ dirty' = {w \in Widgets : rendered[w].tick # 0}
    /\ UNCHANGED <<deque, df, latest, rendered, appended>>

Next ==
    \/ display_temp
    \/ display_time
    \/ display_df
    \/ display_plot
    \/ invalidate_later_fires

Spec == Init /\ [][Next]_vars

\* the event loop never stops while a render of the current flush is pending
\* or a timer is due: some step is taken as long as one is possible
Fairness == WF_vars(Next)

LiveSpec == Spec /\ Fairness

\* --------------------------------------------------- trend fit on its own
\* windows of 1..DEQUE_SIZE readings over 1..MaxFitValue
FitWindows ==
    UNION {[1..n -> 1..MaxFitValue] : n \in 1..DEQUE_SIZE}

\* the dashboard after Len(y) ticks, all outputs of the last tick rendered
\* but display_plot, the window holding the values y
FitInit ==
    \E y \in FitWindows :
        /\ deque = [i \in 1..Len(y) |-> [temp |-> y[i], timestamp |-> timestamp(i)]]
        /\ df = DataFrame(deque)
        /\ latest = Last(deque)
        /\ calc_valid = TRUE
        /\ timer = TRUE
        /\ tick = Len(y)
        /\ dirty = {"display_plot"}
        /\ rendered = [w \in Widgets |-> NotRendered]
        /\ appended = deque

FitNext == display_plot

FitSpec == FitInit /\ [][FitNext]_vars

\* ------------------------------------------------------------------ claims
Min(a, b) == IF a < b THEN a ELSE b

\* the last min(Len(s), DEQUE_SIZE) elements of s, in order
LastN(s) == SubSeq(s, Len(s) - Min(Len(s), DEQUE_SIZE) + 1, Len(s))

HasRendered(w) == rendered[w].tick # 0

\* C1: after k appends the window holds exactly the last min(k, DEQUE_SIZE)
\* appended readings in insertion order (so its length never exceeds
\* DEQUE_SIZE), and the window an output received at tick t is the last
\* min(t, DEQUE_SIZE) of the first t readings.
C1_WindowIsLastN ==
    /\ Len(deque) <= DEQUE_SIZE
    /\ deque = LastN(appended)
    /\ \A w \in Widgets :
         HasRendered(w) =>
            rendered[w].deque_snapshot = LastN(SubSeq(appended, 1, rendered[w].tick))

C1_Witness ==
    /\ Len(appended) = DEQUE_SIZE + 1
    /\ Len(deque) = DEQUE_SIZE
    /\ deque[1] = appended[2]
    /\ Last(deque) = Last(appended)

\* C2: in every tick the sample is appended exactly once however many outputs
\* render, and outputs that rendered in the same tick received the same latest
\* reading and the same window contents.
C2_OneSamplePerTick ==
    /\ Len(appended) = IF calc_valid THEN tick ELSE tick - 1
    /\ \A w1, w2 \in Widgets :
         (HasRendered(w1) /\ rendered[w1].tick = rendered[w2].tick) =>
            /\ rendered[w1].latest_dictionary_entry = rendered[w2].latest_dictionary_entry
            /\ rendered[w1].deque_snapshot = rendered[w2].deque_snapshot

C2_Witness ==
    /\ tick >= 2
    /\ \A w \in Widgets : rendered[w].tick = tick

\* C3: the window an output received at its tick is still what the returned
\* deque_snapshot holds now, whatever ticks have happened since.
C3_SnapshotKeepsContents ==
    \A w \in Widgets :
        HasRendered(w) => deque_snapshot_now = rendered[w].deque_snapshot

\* C4: when display_plot receives a window of fewer than 2 readings it draws
\* no regression line (no slope is fitted).
C4_NoTrendBelowTwoPoints ==
    (HasRendered("display_plot") /\ Len(rendered["display_plot"].deque_snapshot) < 2) =>
        /\ "Regression Line" \notin rendered["display_plot"].value.traces
        /\ rendered["display_plot"].value.regression_line = <<>>

\* C5: a render that uses the memoized result (the calc is fresh before and
\* after the step) changes neither the window nor the memoized DataFrame nor
\* the latest reading.
C5_RendersAreReadOnly ==
    [][(calc_valid /\ calc_valid') =>
          (deque' = deque /\ df' = df /\ latest' = latest)]_vars

\* C6: the calc keeps being re-executed: under fairness the ticks go on one
\* after another up to the explored number of ticks, and the window eventually
\* has DEQUE_SIZE readings and keeps that length for ever.
C6_TicksRecur ==
    <>[](Len(appended) = MaxTicks /\ Len(deque) = DEQUE_SIZE)

C6_Witness ==
    /\ Len(appended) = MaxTicks
    /\ Len(deque) = DEQUE_SIZE
    /\ timer

\* C7: for a window of L >= 2 values the fitted line is the least-squares line
\* over (i, value_i), i = 0..L-1: the residuals sum to zero and are orthogonal
\* to the index; the regression line has L points, point i being
\* slope*i + intercept; a constant window gives slope 0 and the constant as
\* intercept; the values 1,2,3,4,5 give slope 1 and intercept 1.
C7_LeastSquaresOverIndex ==
    LET fig == rendered["display_plot"].value
        y == fig.y
        L == Len(y)
        res == [i \in 1..L |-> FSub(FInt(y[i]), fig.regression_line[i])]
    IN (HasRendered("display_plot") /\ L >= 2) =>
         /\ ~IsNaN(fig.slope)
         /\ ~IsNaN(fig.intercept)
         /\ Len(fig.regression_line) = L
         /\ \A i \in 1..L :
              FEq(fig.regression_line[i],
                  FAdd(FMul(fig.slope, FInt(i - 1)), fig.intercept))
         /\ FEq(FSumSeq(res), FInt(0))
         /\ FEq(FSumSeq([i \in 1..L |-> FMul(FInt(i - 1), res[i])]), FInt(0))
         /\ (\A i \in 1..L : y[i] = y[1]) =>
               (FEq(fig.slope, FInt(0)) /\ FEq(fig.intercept, FInt(y[1])))
         /\ (y = <<1, 2, 3, 4, 5>>) =>
               (FEq(fig.slope, FInt(1)) /\ FEq(fig.intercept, FInt(1)))

C7_Witness ==
    /\ HasRendered("display_plot")
    /\ rendered["display_plot"].value.y = <<1, 2, 3, 4, 5>>
    /\ FEq(rendered["display_plot"].value.slope, FInt(1))

\* C8: a call of the calc with no invalidation since the previous call (a
\* render step that starts and ends with the calc fresh) appends nothing,
\* leaves the window alone and hands out the window and latest reading the
\* previous call returned.
C8_SecondCallIsIdempotent ==
    [][(calc_valid /\ calc_valid') =>
          /\ appended' = appended
          /\ deque' = deque
          /\ latest' = latest
          /\ \A w \in Widgets :
               rendered'[w] # rendered[w] =>
                  /\ rendered'[w].deque_snapshot = deque
                  /\ rendered'[w].latest_dictionary_entry = latest]_vars

C8_Witness ==
    /\ calc_valid
    /\ \E w1, w2 \in Widgets :
         /\ w1 # w2
         /\ rendered[w1].tick = tick
         /\ rendered[w2].tick = tick
         /\ w1 \notin dirty /\ w2 \notin dirty

\* C9: every window and DataFrame an output receives has between 1 and
\* DEQUE_SIZE rows, and display_plot never returns the 'No Data Available'
\* figure.
C9_WindowNeverEmpty ==
    \A w \in Widgets :
        HasRendered(w) =>
           /\ Len(rendered[w].deque_snapshot) \in 1..DEQUE_SIZE
           /\ Len(rendered[w].df.rows) \in 1..DEQUE_SIZE
           /\ (w = "display_plot" => rendered[w].value.title # "No Data Available")

C9_Witness ==
    /\ HasRendered("display_plot")
    /\ Len(rendered["display_plot"].deque_snapshot) = 1
    /\ rendered["display_plot"].value.title = "Temperature Readings with Regression Line"

\* C10: in every returned tuple the latest reading is the last element of the
\* returned window and the last row of the returned DataFrame.
C10_LatestIsLastOfWindow ==
    /\ calc_valid => latest = Last(deque)
    /\ \A w \in Widgets :
         HasRendered(w) =>
            /\ rendered[w].latest_dictionary_entry = Last(rendered[w].deque_snapshot)
            /\ rendered[w].latest_dictionary_entry = Last(rendered[w].df.rows)

C10_Witness ==
    /\ rendered["display_temp"].tick = tick
    /\ rendered["display_df"].tick = tick
    /\ Len(rendered["display_df"].deque_snapshot) >= 2
    /\ rendered["display_temp"].value = Last(rendered["display_df"].value.rows).temp

====
